---- MODULE Spec2Model ----
(***************************************************************************)
(* State-machine model of frcl_analyzer.py, the Streamlit script that      *)
(* reads an uploaded CSV, self-joins it on the barcode columns, cleans and *)
(* filters the joined records, aggregates them per DeltaEZ1 value, fits an *)
(* OLS line, bins DeltaEZ1 into 0.5-wide ranges, writes a two-sheet        *)
(* workbook to output_analysis.xlsx and offers it for download.            *)
(*                                                                         *)
(* One action per statement group of the script; pc is the position of the *)
(* script run.  Decimal numbers are integers in hundredths (2.75 is 275).  *)
(* A CSV cell is the tuple of its characters, so that parsing is modelled  *)
(* by what it does.                                                        *)
(***************************************************************************)
EXTENDS Integers, Sequences, FiniteSets, TLC

\* Largest number of data rows of an uploaded CSV.
MaxRows == 2

----------------------------------------------------------------------------
(* Values of a pandas cell *)

NaN == [t |-> "nan", v |-> <<>>]
Num(n) == [t |-> "num", v |-> <<n>>]
Str(s) == [t |-> "str", v |-> s]
IsNum(x) == x.t = "num"
Val(x) == x.v[1]

Digits == <<"0", "1", "2", "3", "4", "5", "6", "7", "8", "9">>
IsDigit(c) == \E i \in 1..10 : Digits[i] = c
DigitVal(c) == (CHOOSE i \in 1..10 : Digits[i] = c) - 1

RECURSIVE NatOf(_)
\* value of a non-empty tuple of digits
NatOf(s) == IF Len(s) = 0 THEN 0
            ELSE 10 * NatOf(SubSeq(s, 1, Len(s) - 1)) + DigitVal(s[Len(s)])

AllDigits(s) == \A i \in 1..Len(s) : IsDigit(s[i])

\* Position of the first "." of s, or 0.
DotPos(s) == IF \E i \in 1..Len(s) : s[i] = "."
             THEN CHOOSE i \in 1..Len(s) : s[i] = "." /\ \A j \in 1..(i - 1) : s[j] # "."
             ELSE 0

\* Fraction digits f (at most two are representable) as hundredths.
FracOf(f) == IF Len(f) = 0 THEN 0
             ELSE IF Len(f) = 1 THEN 10 * NatOf(f)
             ELSE NatOf(f)

\* Unsigned decimal: digits, optionally "." and digits, at least one digit.
UnsignedOk(s) ==
    LET d == DotPos(s)
        ip == IF d = 0 THEN s ELSE SubSeq(s, 1, d - 1)
        fp == IF d = 0 THEN <<>> ELSE SubSeq(s, d + 1, Len(s))
    IN  /\ AllDigits(ip) /\ AllDigits(fp)
        /\ Len(ip) + Len(fp) > 0
        /\ Len(fp) <= 2

UnsignedVal(s) ==
    LET d == DotPos(s)
        ip == IF d = 0 THEN s ELSE SubSeq(s, 1, d - 1)
        fp == IF d = 0 THEN <<>> ELSE SubSeq(s, d + 1, Len(s))
    IN  100 * NatOf(ip) + FracOf(fp)

\* The text s parses as a decimal number.
IsNumeric(s) ==
    /\ Len(s) > 0
    /\ IF s[1] = "-" THEN UnsignedOk(Tail(s)) ELSE UnsignedOk(s)

\* A numeric text as a number, any other text (the empty one too) as NaN.
ParseFloat(s) ==
    IF ~IsNumeric(s) THEN NaN
    ELSE IF s[1] = "-" THEN Num(0 - UnsignedVal(Tail(s)))
    ELSE Num(UnsignedVal(s))

\* pd.to_numeric(x, errors='coerce') on one cell
to_numeric(x) == IF x.t = "str" THEN ParseFloat(x.v) ELSE x

\* Series.str.replace(',', '') on one cell of an object column
str_replace(x) ==
    IF x.t = "str" THEN Str(SelectSeq(x.v, LAMBDA c : c # ",")) ELSE x

----------------------------------------------------------------------------
(* Uploaded files *)

Empty == <<>>
T1 == <<"T", "1">>
T2 == <<"T", "2">>

FRCL_12      == <<"1", "2">>
FRCL_1234    == <<"1", ",", "2", "3", "4">>
FRCL_1234_5  == <<"1", ",", "2", "3", "4", ".", "5">>
Junk         == <<"a", "b", "c">>

D_m3_5  == <<"-", "3", ".", "5">>
D_m3    == <<"-", "3">>
D_0_5   == <<"0", ".", "5">>
D_2_5   == <<"2", ".", "5">>
D_2_75  == <<"2", ".", "7", "5">>
D_3     == <<"3", ".", "0">>
D_3_5   == <<"3", ".", "5">>

RowOf(ac, bc, f, d) == [BarcodeAC |-> ac, BarcodeBC |-> bc, FRCL |-> f, DeltaEZ1 |-> d]

\* Rows that vary the join keys (missing keys included).
RowsJoin ==
    { RowOf(ac, bc, FRCL_1234, D_0_5) :
        ac \in {T1, T2, Empty}, bc \in {T1, T2, Empty} }

\* Rows that vary DeltaEZ1 around the filter and bucket boundaries.
RowsDelta ==
    { RowOf(k[1], k[2], FRCL_1234, d) :
        k \in {<<T1, T1>>, <<T1, T2>>, <<T2, T1>>},
        d \in {D_m3_5, D_m3, D_2_5, D_2_75, D_3, D_3_5} }

\* Rows that vary the FRCL text.
RowsFRCL ==
    { RowOf(T1, T1, f, d) :
        f \in {FRCL_12, FRCL_1234, FRCL_1234_5, Junk, Empty},
        d \in {D_2_5, D_2_75, Junk} }

RowSets == {RowsJoin, RowsDelta, RowsFRCL}

\* The label of row i in its Finishing Machine / Production Date column.
Label(p, i) == <<p, Digits[i + 1]>>

\* The CSV with the required columns whose data rows are f[1], ..., f[n].
CsvOf(f) ==
    [kind |-> "csv",
     rows |-> [i \in 1..Len(f) |->
                 [FinishingMachine |-> Label("M", i),
                  ProductionDate   |-> Label("D", i),
                  BarcodeAC        |-> f[i].BarcodeAC,
                  BarcodeBC        |-> f[i].BarcodeBC,
                  FRCL             |-> f[i].FRCL,
                  DeltaEZ1         |-> f[i].DeltaEZ1]]]

Tables == UNION { UNION { [1..n -> R] : n \in 0..MaxRows } : R \in RowSets }

\* kind "malformed": not parseable as CSV; kind "nocolumns": a CSV without
\* the required columns.
Uploads ==
    {[kind |-> "malformed", rows |-> <<>>], [kind |-> "nocolumns", rows |-> <<>>]}
    \cup { CsvOf(f) : f \in Tables }

Columns == {"FinishingMachine", "ProductionDate", "BarcodeAC", "BarcodeBC", "FRCL", "DeltaEZ1"}

----------------------------------------------------------------------------
(* pd.read_csv *)

Column(rows, c) == [i \in 1..Len(rows) |-> rows[i][c]]

\* The dtype pandas infers for a column of cell texts: a column without rows
\* or with a non-numeric text is an object column of strings, any other
\* column is numeric.
InferDtype(cells) ==
    IF Len(cells) = 0 THEN "object"
    ELSE IF \A i \in 1..Len(cells) : cells[i] = Empty \/ IsNumeric(cells[i]) THEN "float64"
    ELSE "object"

\* One parsed cell: an empty cell is NaN in every column.
ReadCell(dtype, s) ==
    IF s = Empty THEN NaN
    ELSE IF dtype = "float64" THEN ParseFloat(s)
    ELSE Str(s)

read_csv(file) ==
    LET dt == [c \in Columns |-> InferDtype(Column(file.rows, c))]
    IN  [dtypes |-> dt,
         rows   |-> [i \in 1..Len(file.rows) |->
                       [c \in Columns |-> ReadCell(dt[c], file.rows[i][c])]]]

----------------------------------------------------------------------------
(* DataFrame.merge, projection and rename *)

\* The pair of row numbers at place k of the row-major enumeration of n x n.
PairAt(k, n) == <<((k - 1) \div n) + 1, ((k - 1) % n) + 1>>

\* Equality join of the key columns; two missing keys match each other.
KeysMatch(l, r) == l["BarcodeAC"] = r["BarcodeBC"]

\* data.merge(data, left_on='Barcode(AC)', right_on='Barcode(BC)',
\* suffixes=('_AC', '_BC')): one row per matching pair, the left row's columns
\* under the _AC suffix and the right row's under the _BC suffix.
merge(df) ==
    LET n == Len(df.rows)
        all == [k \in 1..(n * n) |-> PairAt(k, n)]
        hit == SelectSeq(all, LAMBDA p : KeysMatch(df.rows[p[1]], df.rows[p[2]]))
    IN  [k \in 1..Len(hit) |-> [AC |-> df.rows[hit[k][1]], BC |-> df.rows[hit[k][2]]]]

\* merge raises ValueError for an object key column against a numeric one.
MergeDtypesOk(df) ==
    \/ Len(df.rows) = 0
    \/ df.dtypes["BarcodeAC"] = df.dtypes["BarcodeBC"]

\* The projection with DeltaEZ1 taken from the _AC side.
select_row_DeltaAC(m) ==
    [FinishingMachine |-> m.AC["FinishingMachine"],
     ProductionDate   |-> m.AC["ProductionDate"],
     Barcode          |-> m.AC["BarcodeAC"],
     FRCL             |-> m.AC["FRCL"],
     DeltaEZ1         |-> m.AC["DeltaEZ1"]]

\* merged_data[[...]].rename(columns={...}) on one joined row
select_row(m) ==
    [FinishingMachine |-> m.AC["FinishingMachine"],
     ProductionDate   |-> m.AC["ProductionDate"],
     Barcode          |-> m.AC["BarcodeAC"],
     FRCL             |-> m.AC["FRCL"],
     DeltaEZ1         |-> m.BC["DeltaEZ1"]]

select(merged) == [k \in 1..Len(merged) |-> select_row(merged[k])]

----------------------------------------------------------------------------
(* State *)

VARIABLES
    pc,             \* position of the script run
    uploaded_file,  \* the file given to st.file_uploader
    data,           \* line 19
    merged_data,    \* line 21
    selected_data,  \* lines 23-34
    filtered_data,  \* lines 36, 53
    grouped,        \* lines 38-49
    range_count_df, \* lines 54-56
    fs,             \* the file output_analysis.xlsx in the working directory
    shown,          \* the elements the run has put on the page, in order
    offered         \* the bytes handed to st.download_button

vars == <<pc, uploaded_file, data, merged_data, selected_data, filtered_data,
          grouped, range_count_df, fs, shown, offered>>

None == [kind |-> "none", rows |-> <<>>]
NoData == [dtypes |-> [c \in Columns |-> "object"], rows |-> <<>>]
NoFile == [writer |-> "nobody", styled |-> FALSE, sheets |-> <<>>]

\* The script's variables before any statement of the try block has run.
Fresh ==
    /\ data = NoData
    /\ merged_data = <<>>
    /\ selected_data = <<>>
    /\ filtered_data = <<>>
    /\ grouped = <<>>
    /\ range_count_df = <<>>
    /\ shown = <<>>
    /\ offered = NoFile

Init ==
    /\ pc = "idle"
    /\ uploaded_file = None
    /\ fs = NoFile
    /\ Fresh

\* A file of an earlier run: its sheets are not tracked any further.
Aged(f) == IF f = NoFile THEN NoFile
           ELSE [writer |-> "earlier", styled |-> f.styled, sheets |-> <<>>]

\* The except branch: st.error with the exception's message.
Raise(what) ==
    /\ shown' = Append(shown, <<"error", what>>)
    /\ pc' = "error"

\* Lines 15-17: an upload starts a run of the script.
Upload ==
    /\ pc = "idle"
    /\ \E u \in Uploads : uploaded_file' = u
    /\ pc' = "read_csv"
    /\ UNCHANGED <<data, merged_data, selected_data, filtered_data,
                   grouped, range_count_df, fs, shown, offered>>

\* The run is over and the session goes away: the page and the script's
\* variables are discarded, the working directory is not touched.
Close ==
    /\ pc \in {"done", "error"}
    /\ pc' = "idle"
    /\ uploaded_file' = None
    /\ fs' = Aged(fs)
    /\ data' = NoData
    /\ merged_data' = <<>>
    /\ selected_data' = <<>>
    /\ filtered_data' = <<>>
    /\ grouped' = <<>>
    /\ range_count_df' = <<>>
    /\ shown' = <<>>
    /\ offered' = NoFile

\* Line 19
ReadCsv ==
    /\ pc = "read_csv"
    /\ uploaded_file.kind # "malformed"
    /\ data' = IF uploaded_file.kind = "csv" THEN read_csv(uploaded_file) ELSE NoData
    /\ pc' = "merge"
    /\ UNCHANGED <<uploaded_file, merged_data, selected_data, filtered_data,
                   grouped, range_count_df, fs, shown, offered>>

ReadCsvFail ==
    /\ pc = "read_csv"
    /\ uploaded_file.kind = "malformed"
    /\ Raise("Error tokenizing data")
    /\ UNCHANGED <<uploaded_file, data, merged_data, selected_data, filtered_data,
                   grouped, range_count_df, fs, offered>>

\* Line 21
Merge ==
    /\ pc = "merge"
    /\ uploaded_file.kind = "csv"
    /\ MergeDtypesOk(data)
    /\ merged_data' = merge(data)
    /\ pc' = "select"
    /\ UNCHANGED <<uploaded_file, data, selected_data, filtered_data,
                   grouped, range_count_df, fs, shown, offered>>

MergeFail ==
    /\ pc = "merge"
    /\ \/ uploaded_file.kind = "nocolumns" /\ Raise("'Barcode(AC)'")
       \/ uploaded_file.kind = "csv" /\ ~MergeDtypesOk(data) /\ Raise("You are trying to merge on object and float64 columns")
    /\ UNCHANGED <<uploaded_file, data, merged_data, selected_data, filtered_data,
                   grouped, range_count_df, fs, offered>>

\* Lines 23-31
Select ==
    /\ pc = "select"
    /\ selected_data' = select(merged_data)
    /\ pc' = "clean_frcl"
    /\ UNCHANGED <<uploaded_file, data, merged_data, filtered_data,
                   grouped, range_count_df, fs, shown, offered>>

\* Line 33: the .str accessor exists on object columns only.
CleanFRCL ==
    /\ pc = "clean_frcl"
    /\ data.dtypes["FRCL"] = "object"
    /\ selected_data' = [k \in 1..Len(selected_data) |->
                           [selected_data[k] EXCEPT !.FRCL = to_numeric(str_replace(@))]]
    /\ pc' = "clean_deltaez1"
    /\ UNCHANGED <<uploaded_file, data, merged_data, filtered_data,
                   grouped, range_count_df, fs, shown, offered>>

CleanFRCLFail ==
    /\ pc = "clean_frcl"
    /\ data.dtypes["FRCL"] # "object"
    /\ Raise("Can only use .str accessor with string values!")
    /\ UNCHANGED <<uploaded_file, data, merged_data, selected_data, filtered_data,
                   grouped, range_count_df, fs, offered>>

\* Line 34
CleanDeltaEZ1 ==
    /\ pc = "clean_deltaez1"
    /\ selected_data' = [k \in 1..Len(selected_data) |->
                           [selected_data[k] EXCEPT !.DeltaEZ1 = to_numeric(@)]]
    /\ pc' = "filter"
    /\ UNCHANGED <<uploaded_file, data, merged_data, filtered_data,
                   grouped, range_count_df, fs, shown, offered>>

\* The filter of line 36 with the upper bound left out.
InRange_NoUpper(x) == IsNum(x) /\ Val(x) >= -300

\* Line 36: a comparison with NaN is False.
InRange(x) == IsNum(x) /\ Val(x) >= -300 /\ Val(x) <= 300

\* The filter written back to selected_data.
Filter_InPlace ==
    /\ pc = "filter"
    /\ filtered_data' = SelectSeq(selected_data, LAMBDA r : InRange(r.DeltaEZ1))
    /\ selected_data' = SelectSeq(selected_data, LAMBDA r : InRange(r.DeltaEZ1))
    /\ pc' = "groupby"
    /\ UNCHANGED <<uploaded_file, data, merged_data,
                   grouped, range_count_df, fs, shown, offered>>

Filter ==
    /\ pc = "filter"
    /\ filtered_data' = SelectSeq(selected_data, LAMBDA r : InRange(r.DeltaEZ1))
    /\ pc' = "groupby"
    /\ UNCHANGED <<uploaded_file, data, merged_data, selected_data,
                   grouped, range_count_df, fs, shown, offered>>

----------------------------------------------------------------------------
(* groupby / agg *)

Range(f) == {f[i] : i \in 1..Len(f)}

RECURSIVE SortedSeq(_)
\* The numbers of S in ascending order.
SortedSeq(S) ==
    IF S = {} THEN <<>>
    ELSE LET m == CHOOSE x \in S : \A y \in S : x <= y
         IN  <<m>> \o SortedSeq(S \ {m})

\* Series.count() in the place of nunique(): every value that is not NaN.
nunique_AsCount(cells) == Len(SelectSeq(cells, LAMBDA x : x # NaN))

\* Series.nunique(): the number of distinct values, NaN left out.
nunique(cells) == Cardinality({x \in Range(cells) : x # NaN})

RECURSIVE Sum(_)
Sum(nums) == IF Len(nums) = 0 THEN 0 ELSE Val(Head(nums)) + Sum(Tail(nums))

RECURSIVE Gcd(_, _)
Gcd(a, b) == IF b = 0 THEN a ELSE Gcd(b, a % b)

\* The fraction p/q (q > 0, p >= 0) in lowest terms.
Ratio(p, q) == LET g == Gcd(p, q) IN [t |-> "num", v |-> <<p \div g, q \div g>>]

\* Series.mean(): the mean of the values that are not NaN, NaN if there is none.
mean(cells) ==
    LET nums == SelectSeq(cells, IsNum)
    IN  IF Len(nums) = 0 THEN NaN ELSE Ratio(Sum(nums), Len(nums))

RECURSIVE FirstSeen(_)
\* The values of a sequence in the order of their first occurrence.
FirstSeen(f) ==
    IF Len(f) = 0 THEN <<>>
    ELSE LET init == FirstSeen(SubSeq(f, 1, Len(f) - 1))
         IN  IF f[Len(f)] \in Range(init) THEN init ELSE Append(init, f[Len(f)])

\* groupby(..., sort=False): the keys in the order of their first occurrence.
groupby_agg_Unsorted(df) ==
    LET keys == FirstSeen([k \in 1..Len(df) |-> Val(df[k].DeltaEZ1)])
        grp(d) == SelectSeq(df, LAMBDA r : Val(r.DeltaEZ1) = d)
    IN  [i \in 1..Len(keys) |->
           [DeltaEZ1      |-> Num(keys[i]),
            NumberOfTires |-> nunique([k \in 1..Len(grp(keys[i])) |-> grp(keys[i])[k].Barcode]),
            AverageFRCL   |-> mean([k \in 1..Len(grp(keys[i])) |-> grp(keys[i])[k].FRCL])]]

\* Lines 38-44: one row per key that is not NaN, keys ascending.
groupby_agg(df) ==
    LET keys == SortedSeq({Val(r.DeltaEZ1) : r \in Range(df)})
        grp(d) == SelectSeq(df, LAMBDA r : Val(r.DeltaEZ1) = d)
    IN  [i \in 1..Len(keys) |->
           [DeltaEZ1      |-> Num(keys[i]),
            NumberOfTires |-> nunique([k \in 1..Len(grp(keys[i])) |-> grp(keys[i])[k].Barcode]),
            AverageFRCL   |-> mean([k \in 1..Len(grp(keys[i])) |-> grp(keys[i])[k].FRCL])]]

GroupBy ==
    /\ pc = "groupby"
    /\ grouped' = groupby_agg(filtered_data)
    /\ pc' = "ols"
    /\ UNCHANGED <<uploaded_file, data, merged_data, selected_data, filtered_data,
                   range_count_df, fs, shown, offered>>

----------------------------------------------------------------------------
(* statsmodels OLS *)

\* The in-sample prediction of sm.OLS(y, X).fit() for a frame with at least
\* one row: NaN in every row when some y is NaN, else a value fitted on all
\* the rows (recorded with their number, not computed).
ols_predict(g) ==
    IF \E i \in 1..Len(g) : g[i].AverageFRCL = NaN THEN NaN
    ELSE [t |-> "fit", v |-> <<Len(g)>>]

\* Lines 46-49.  OLS raises ValueError (zero-size array) for a frame without
\* rows and fits any frame with at least one row.
Regress ==
    /\ pc = "ols"
    /\ Len(grouped) > 0
    /\ grouped' = [i \in 1..Len(grouped) |->
                     [DeltaEZ1       |-> grouped[i].DeltaEZ1,
                      NumberOfTires  |-> grouped[i].NumberOfTires,
                      AverageFRCL    |-> grouped[i].AverageFRCL,
                      OLS_Prediction |-> ols_predict(grouped)]]
    /\ pc' = "cut"
    /\ UNCHANGED <<uploaded_file, data, merged_data, selected_data, filtered_data,
                   range_count_df, fs, shown, offered>>

\* The exception reported and the run carried on.
RegressFail_Swallowed ==
    /\ pc = "ols"
    /\ Len(grouped) = 0
    /\ shown' = Append(shown, <<"error", "zero-size array to reduction operation maximum which has no identity">>)
    /\ pc' = "cut"
    /\ UNCHANGED <<uploaded_file, data, merged_data, selected_data, filtered_data,
                   grouped, range_count_df, fs, offered>>

RegressFail ==
    /\ pc = "ols"
    /\ Len(grouped) = 0
    /\ Raise("zero-size array to reduction operation maximum which has no identity")
    /\ UNCHANGED <<uploaded_file, data, merged_data, selected_data, filtered_data,
                   grouped, range_count_df, fs, offered>>

----------------------------------------------------------------------------
(* Binning *)

\* np.arange(start, stop, step): ceil((stop - start) / step) values.
arange(start, stop, step) ==
    [i \in 1..((stop - start + step - 1) \div step) |-> start + (i - 1) * step]

\* Line 51
deltaez1_bins == arange(-300, 310, 50)

\* Line 52
bin_labels == [i \in 1..(Len(deltaez1_bins) - 1) |-> <<deltaez1_bins[i], "to", deltaez1_bins[i + 1]>>]

NoBin == <<>>

\* pd.cut with its default right=True: the intervals are (bins[i], bins[i+1]].
cut_RightClosed(x, bins, labels) ==
    IF IsNum(x) /\ \E i \in 1..(Len(bins) - 1) : bins[i] < Val(x) /\ Val(x) <= bins[i + 1]
    THEN labels[CHOOSE i \in 1..(Len(bins) - 1) : bins[i] < Val(x) /\ Val(x) <= bins[i + 1]]
    ELSE NoBin

\* pd.cut(x, bins, labels, right=False): the label of the interval
\* [bins[i], bins[i+1]) that holds x, NaN outside of all of them.
cut(x, bins, labels) ==
    IF IsNum(x) /\ \E i \in 1..(Len(bins) - 1) : bins[i] <= Val(x) /\ Val(x) < bins[i + 1]
    THEN labels[CHOOSE i \in 1..(Len(bins) - 1) : bins[i] <= Val(x) /\ Val(x) < bins[i + 1]]
    ELSE NoBin

\* Lines 54-56: one row per category, in category order, also for a category
\* no row has (groupby on a categorical column with observed=False, the
\* default of the pandas 1.x and 2.x releases).
range_count(df, labels) ==
    [i \in 1..Len(labels) |->
       LET grp == SelectSeq(df, LAMBDA r : r.DeltaEZ1_Range = labels[i])
       IN  [DeltaEZ1_Range |-> labels[i],
            NumberOfTires  |-> nunique([k \in 1..Len(grp) |-> grp[k].Barcode])]]

WithRange(df) ==
    [k \in 1..Len(df) |->
       [FinishingMachine |-> df[k].FinishingMachine,
        ProductionDate   |-> df[k].ProductionDate,
        Barcode          |-> df[k].Barcode,
        FRCL             |-> df[k].FRCL,
        DeltaEZ1         |-> df[k].DeltaEZ1,
        DeltaEZ1_Range   |-> cut(df[k].DeltaEZ1, deltaez1_bins, bin_labels)]]

\* Lines 51-56
Bin ==
    /\ pc = "cut"
    /\ filtered_data' = WithRange(filtered_data)
    /\ range_count_df' = range_count(WithRange(filtered_data), bin_labels)
    /\ pc' = "to_excel"
    /\ UNCHANGED <<uploaded_file, data, merged_data, selected_data,
                   grouped, fs, shown, offered>>

----------------------------------------------------------------------------
(* Export, messages, charts, download *)

\* Lines 58-61
Export ==
    /\ pc = "to_excel"
    /\ fs' = [writer |-> "this", styled |-> FALSE,
              sheets |-> << <<"Selected Data", selected_data>>,
                            <<"Range Count", range_count_df>> >>]
    /\ pc' = "style"
    /\ UNCHANGED <<uploaded_file, data, merged_data, selected_data, filtered_data,
                   grouped, range_count_df, shown, offered>>

\* Line 59: the working directory may refuse the write.
ExportFail ==
    /\ pc = "to_excel"
    /\ Raise("Permission denied: 'output_analysis.xlsx'")
    /\ UNCHANGED <<uploaded_file, data, merged_data, selected_data, filtered_data,
                   grouped, range_count_df, fs, offered>>

\* Lines 63-75
Style ==
    /\ pc = "style"
    /\ fs' = [fs EXCEPT !.styled = TRUE]
    /\ pc' = "success"
    /\ UNCHANGED <<uploaded_file, data, merged_data, selected_data, filtered_data,
                   grouped, range_count_df, shown, offered>>

\* Line 93 (the figures of lines 78-91 are built from grouped and
\* range_count_df and change neither)
Success ==
    /\ pc = "success"
    /\ shown' = Append(shown, <<"success", "Analysis complete">>)
    /\ pc' = "charts"
    /\ UNCHANGED <<uploaded_file, data, merged_data, selected_data, filtered_data,
                   grouped, range_count_df, fs, offered>>

\* Lines 95-97
Charts ==
    /\ pc = "charts"
    /\ shown' = shown \o << <<"chart", "fig1">>, <<"chart", "fig2">>, <<"chart", "fig3">> >>
    /\ pc' = "download"
    /\ UNCHANGED <<uploaded_file, data, merged_data, selected_data, filtered_data,
                   grouped, range_count_df, fs, offered>>

\* Lines 99-100: the button gets the bytes of the file as it is now.
Download ==
    /\ pc = "download"
    /\ offered' = fs
    /\ shown' = Append(shown, <<"download", "FRCL_Analysis.xlsx">>)
    /\ pc' = "done"
    /\ UNCHANGED <<uploaded_file, data, merged_data, selected_data, filtered_data,
                   grouped, range_count_df, fs>>

Next ==
    \/ Upload
    \/ Close
    \/ ReadCsv
    \/ ReadCsvFail
    \/ Merge
    \/ MergeFail
    \/ Select
    \/ CleanFRCL
    \/ CleanFRCLFail
    \/ CleanDeltaEZ1
    \/ Filter
    \/ GroupBy
    \/ Regress
    \/ RegressFail
    \/ Bin
    \/ Export
    \/ ExportFail
    \/ Style
    \/ Success
    \/ Charts
    \/ Download

Spec == Init /\ [][Next]_vars

----------------------------------------------------------------------------
(* Where a run is *)

\* The statements of the run in program order, each named as pc names it
\* while it is the next one to execute.
Order == <<"idle", "read_csv", "merge", "select", "clean_frcl", "clean_deltaez1",
           "filter", "groupby", "ols", "cut", "to_excel", "style", "success",
           "charts", "download", "done">>

Pos(step) == CHOOSE i \in 1..Len(Order) : Order[i] = step

\* The statement that raises the exception with message msg.
RaisedBy(msg) ==
    CASE msg = "Error tokenizing data" -> "read_csv"
      [] msg = "'Barcode(AC)'" -> "merge"
      [] msg = "You are trying to merge on object and float64 columns" -> "merge"
      [] msg = "Can only use .str accessor with string values!" -> "clean_frcl"
      [] msg = "zero-size array to reduction operation maximum which has no identity" -> "ols"
      [] msg = "Permission denied: 'output_analysis.xlsx'" -> "to_excel"

Kinds(k) == {i \in 1..Len(shown) : shown[i][1] = k}
Errors == Kinds("error")

\* The statement an aborted run failed at.
FailedAt == RaisedBy(shown[CHOOSE i \in Errors : TRUE][2])

\* The statement step has completed in the current run.
Done(step) == IF pc = "error" THEN Pos(FailedAt) > Pos(step) ELSE Pos(pc) > Pos(step)

Idx(df) == 1..Len(df)

\* A cell holds a number between lo and hi (hundredths), bounds included.
Within(x, lo, hi) == x.t = "num" /\ x.v[1] >= lo /\ x.v[1] <= hi

\* The distinct barcodes (missing ones are no barcode) of the records of df at
\* the places K.
Barcodes(df, K) == {df[k].Barcode : k \in K} \ {NaN}

----------------------------------------------------------------------------
(* C1 *)

\* C1: once the aggregate table exists, every row of it has a DeltaEZ1 in
\* [-3.0, 3.0], each row stems from Selected Records with exactly that
\* in-range DeltaEZ1 and counts only their barcodes, and the Filtered Records
\* are exactly the Selected Records whose parsed DeltaEZ1 is in [-3, 3]
\* (both bounds included), in their order.
C1_AggregateWithinRange ==
    Done("groupby") =>
        LET keep == {k \in Idx(selected_data) : Within(selected_data[k].DeltaEZ1, -300, 300)}
        IN  /\ \A i \in Idx(grouped) :
                 /\ Within(grouped[i].DeltaEZ1, -300, 300)
                 /\ \E k \in keep : selected_data[k].DeltaEZ1 = grouped[i].DeltaEZ1
                 /\ grouped[i].NumberOfTires =
                      Cardinality(Barcodes(selected_data,
                          {k \in keep : selected_data[k].DeltaEZ1 = grouped[i].DeltaEZ1}))
            /\ Len(filtered_data) = Cardinality(keep)
            /\ \A k \in keep :
                 LET j == Cardinality({m \in keep : m <= k})
                 IN  /\ filtered_data[j].DeltaEZ1 = selected_data[k].DeltaEZ1
                     /\ filtered_data[j].Barcode = selected_data[k].Barcode
                     /\ filtered_data[j].FRCL = selected_data[k].FRCL
                     /\ filtered_data[j].FinishingMachine = selected_data[k].FinishingMachine

\* An aggregate with a row at exactly 3.0 exists while the Selected Records
\* also hold a DeltaEZ1 above 3 and one below -3 or at exactly -3.
C1_Witness ==
    /\ Done("groupby")
    /\ \E i \in Idx(grouped) : grouped[i].DeltaEZ1 = Num(300)
    /\ \E k \in Idx(selected_data) : selected_data[k].DeltaEZ1 = Num(350)

----------------------------------------------------------------------------
(* C2 *)

RECURSIVE SumCounts(_)
SumCounts(df) == IF Len(df) = 0 THEN 0 ELSE Head(df).NumberOfTires + SumCounts(Tail(df))

\* The Filtered Records with DeltaEZ1 strictly below 3.0.
Below3 == {k \in Idx(filtered_data) : filtered_data[k].DeltaEZ1.v[1] < 300}

\* The number of the 0.5-wide interval, counted from -3.0, that holds d.
BucketOf(d) == (d + 300) \div 50

\* C2 as stated: the counts of the Range Count table sum to the number of
\* Filtered Records with DeltaEZ1 strictly below 3.0.
C2_SumIsRecordCount ==
    Done("cut") => SumCounts(range_count_df) = Cardinality(Below3)

\* C2 as amended: the counts of the Range Count table sum to the number of
\* distinct (bucket, barcode) pairs among the Filtered Records with DeltaEZ1
\* strictly below 3.0 whose barcode is not missing; the sum is the number of
\* those records exactly when no barcode is missing and none occurs twice in
\* one bucket, and is smaller otherwise.
C2_SumIsDistinctPairs ==
    Done("cut") =>
        LET pairs == {<<BucketOf(filtered_data[k].DeltaEZ1.v[1]), filtered_data[k].Barcode>> :
                        k \in {j \in Below3 : filtered_data[j].Barcode # NaN}}
            once == \A j, k \in Below3 :
                      /\ filtered_data[k].Barcode # NaN
                      /\ (j # k /\ filtered_data[j].Barcode = filtered_data[k].Barcode)
                           => BucketOf(filtered_data[j].DeltaEZ1.v[1]) # BucketOf(filtered_data[k].DeltaEZ1.v[1])
        IN  /\ SumCounts(range_count_df) = Cardinality(pairs)
            /\ SumCounts(range_count_df) <= Cardinality(Below3)
            /\ (SumCounts(range_count_df) = Cardinality(Below3)) <=> once

\* One barcode in two Filtered Records of one bucket and in a record of
\* another bucket, after join fan-out.
C2_Witness ==
    /\ Done("cut")
    /\ \E j, k, m \in Below3 :
         /\ j # k
         /\ filtered_data[j].Barcode = filtered_data[k].Barcode
         /\ filtered_data[m].Barcode = filtered_data[k].Barcode
         /\ filtered_data[j].DeltaEZ1_Range = filtered_data[k].DeltaEZ1_Range
         /\ filtered_data[m].DeltaEZ1_Range # filtered_data[k].DeltaEZ1_Range

----------------------------------------------------------------------------
(* C3 *)

\* C3: a run whose Filtered Records hold fewer than 2 distinct DeltaEZ1
\* values does not get past the regression: it ends in the reported error.
C3_FewGroupsIsError ==
    (Done("groupby") /\ Cardinality({filtered_data[k].DeltaEZ1 : k \in Idx(filtered_data)}) < 2)
        => ~Done("ols")

----------------------------------------------------------------------------
(* C4 *)

\* C4: no run is put into the error outcome by the cleaning statements.
C4_CleaningNeverRaises ==
    pc = "error" => FailedAt \notin {"clean_frcl", "clean_deltaez1"}

----------------------------------------------------------------------------
(* C5 *)

\* The pairs of raw rows (a, b) with a.Barcode(AC) = b.Barcode(BC).
Matching ==
    {p \in Idx(data.rows) \X Idx(data.rows) :
        data.rows[p[1]]["BarcodeAC"] = data.rows[p[2]]["BarcodeBC"]}

\* The record the claim expects for the pair p, before cleaning.
Joined(p) ==
    [FinishingMachine |-> data.rows[p[1]]["FinishingMachine"],
     ProductionDate   |-> data.rows[p[1]]["ProductionDate"],
     Barcode          |-> data.rows[p[1]]["BarcodeAC"],
     FRCL             |-> data.rows[p[1]]["FRCL"],
     DeltaEZ1         |-> data.rows[p[2]]["DeltaEZ1"]]

\* C5: right after the projection the Selected Records are, as a multiset,
\* the records Joined(a, b) of the matching pairs, one per pair; so a barcode
\* on m AC cells and n BC cells is the Barcode of m*n records.
C5_JoinFanOut ==
    (pc = "clean_frcl") =>
        /\ Len(selected_data) = Cardinality(Matching)
        /\ \A k \in Idx(selected_data) : \E p \in Matching : selected_data[k] = Joined(p)
        /\ \A p \in Matching :
             Cardinality({k \in Idx(selected_data) : selected_data[k] = Joined(p)})
               = Cardinality({q \in Matching : Joined(q) = Joined(p)})
        /\ \A a \in Idx(data.rows) :
             LET v == data.rows[a]["BarcodeAC"]
                 m == Cardinality({i \in Idx(data.rows) : data.rows[i]["BarcodeAC"] = v})
                 n == Cardinality({i \in Idx(data.rows) : data.rows[i]["BarcodeBC"] = v})
             IN  Cardinality({k \in Idx(selected_data) : selected_data[k].Barcode = v}) = m * n

\* A barcode on two AC cells and two BC cells has given four records, with
\* two different DeltaEZ1 texts on the BC side.
C5_Witness ==
    /\ pc = "clean_frcl"
    /\ Len(selected_data) = 4
    /\ \E j, k \in Idx(selected_data) : selected_data[j].DeltaEZ1 # selected_data[k].DeltaEZ1

----------------------------------------------------------------------------
(* C6 *)

\* C6: the Range Count table has 12 rows, row k+1 for the interval
\* [-3.0 + 0.5k, -3.0 + 0.5(k+1)), and the count of a row is the number of
\* distinct barcodes of the Filtered Records with DeltaEZ1 in that interval,
\* left bound included and right bound excluded; nothing at exactly 3.0 is
\* counted and an interval without records has the count 0.
C6_TwelveBuckets ==
    Done("cut") =>
        /\ Len(range_count_df) = 12
        /\ \A k \in 0..11 :
             LET lo == -300 + 50 * k
                 hi == -300 + 50 * (k + 1)
                 in == {j \in Idx(filtered_data) :
                          /\ filtered_data[j].DeltaEZ1.v[1] >= lo
                          /\ filtered_data[j].DeltaEZ1.v[1] < hi}
             IN  /\ range_count_df[k + 1].DeltaEZ1_Range = <<lo, "to", hi>>
                 /\ range_count_df[k + 1].NumberOfTires = Cardinality(Barcodes(filtered_data, in))

\* Filtered Records at exactly 3.0, at exactly -3.0 and inside a bucket, with
\* the table built.
C6_Witness ==
    /\ Done("cut")
    /\ \E k \in Idx(filtered_data) : filtered_data[k].DeltaEZ1 = Num(300)
    /\ \E k \in Idx(filtered_data) : filtered_data[k].DeltaEZ1 \in {Num(-300), Num(275)}
    /\ \E i \in Idx(range_count_df) : range_count_df[i].NumberOfTires = 0

----------------------------------------------------------------------------
(* C7 *)

\* The statements of ingestion, join/projection, cleaning, aggregation and
\* regression.
CoreSteps == {"read_csv", "merge", "select", "clean_frcl", "clean_deltaez1",
              "filter", "groupby", "ols"}

\* C7: an error message ends the run where it is; a run that failed in one of
\* the core steps has shown that one error message and nothing else, has
\* written no file and offers nothing for download; and the success message
\* is on the page only when join, aggregation, regression, binning and the
\* export (written and styled workbook) are complete.
C7_FailureAborts ==
    /\ Errors # {} => pc = "error"
    /\ (pc = "error" /\ FailedAt \in CoreSteps) =>
          /\ Len(shown) = 1
          /\ Kinds("success") = {} /\ Kinds("chart") = {} /\ Kinds("download") = {}
          /\ fs.writer # "this"
          /\ offered = NoFile
    /\ Kinds("success") # {} =>
          /\ Done("merge") /\ Done("groupby") /\ Done("ols") /\ Done("cut") /\ Done("style")
          /\ Len(grouped) > 0
          /\ \A i \in Idx(grouped) : "OLS_Prediction" \in DOMAIN grouped[i]
          /\ Len(range_count_df) = 12
          /\ fs.writer = "this" /\ fs.styled

\* A run failed in the regression while the file of an earlier run lies in
\* the working directory.
C7_Witness ==
    /\ pc = "error"
    /\ FailedAt = "ols"
    /\ fs.writer = "earlier"

----------------------------------------------------------------------------
(* C8 *)

\* C8: when a run has ended, in success or in error, the working directory
\* holds no workbook, neither of this run nor of an earlier one.
C8_ArtifactScopedToRun ==
    pc \in {"done", "error"} => fs = NoFile

----------------------------------------------------------------------------
(* C9 *)

SelectedColumns == {"FinishingMachine", "ProductionDate", "Barcode", "FRCL", "DeltaEZ1"}

\* The Selected Record of the pair p after cleaning.
Cleaned(p) ==
    [Joined(p) EXCEPT !.FRCL = to_numeric(str_replace(@)), !.DeltaEZ1 = to_numeric(@)]

\* C9: the workbook a run hands to the download has the two sheets
\* 'Selected Data' and 'Range Count', in this order; the first holds one row
\* per matching pair of raw rows - the cleaned Selected Record of the pair,
\* whatever its DeltaEZ1 - with the five columns and no other, the second
\* holds the bucket table.
C9_WorkbookSheets ==
    pc = "done" =>
        /\ Len(offered.sheets) = 2
        /\ offered.sheets[1][1] = "Selected Data"
        /\ offered.sheets[2][1] = "Range Count"
        /\ LET sd == offered.sheets[1][2]
               cl == {<<p, Cleaned(p)>> : p \in Matching}
           IN  /\ Len(sd) = Cardinality(Matching)
               /\ \A k \in Idx(sd) : DOMAIN sd[k] = SelectedColumns
               /\ \A c \in cl :
                    Cardinality({k \in Idx(sd) : sd[k] = c[2]})
                      = Cardinality({d \in cl : d[2] = c[2]})
               /\ sd = selected_data
        /\ offered.sheets[2][2] = range_count_df
        /\ Len(offered.sheets[2][2]) = 12

\* A downloaded workbook whose first sheet has a row with a missing DeltaEZ1
\* next to a row inside the range.
C9_Witness ==
    /\ pc = "done"
    /\ \E j, k \in Idx(offered.sheets[1][2]) :
         /\ offered.sheets[1][2][j].DeltaEZ1 = NaN
         /\ offered.sheets[1][2][k].DeltaEZ1 = Num(250)

----------------------------------------------------------------------------
(* C10 *)

\* C10: the aggregate table has one row per DeltaEZ1 value of the Filtered
\* Records, in strictly ascending order of DeltaEZ1, and the Number of Tires
\* of a row is the number of distinct barcodes of the Filtered Records with
\* that DeltaEZ1.
C10_OneRowPerDeltaEZ1 ==
    Done("groupby") =>
        /\ {grouped[i].DeltaEZ1 : i \in Idx(grouped)}
             = {filtered_data[k].DeltaEZ1 : k \in Idx(filtered_data)}
        /\ \A i, j \in Idx(grouped) : i < j => grouped[i].DeltaEZ1.v[1] < grouped[j].DeltaEZ1.v[1]
        /\ \A i \in Idx(grouped) :
             grouped[i].NumberOfTires =
               Cardinality(Barcodes(filtered_data,
                   {k \in Idx(filtered_data) : filtered_data[k].DeltaEZ1 = grouped[i].DeltaEZ1}))

\* Two aggregate rows, the larger DeltaEZ1 first among the Filtered Records,
\* and a row that counts one barcode for two records.
C10_Witness ==
    /\ Done("groupby")
    /\ Len(grouped) = 2
    /\ filtered_data[1].DeltaEZ1.v[1] > filtered_data[2].DeltaEZ1.v[1]
    /\ \E i \in Idx(grouped) :
         /\ grouped[i].NumberOfTires = 1
         /\ Cardinality({k \in Idx(filtered_data) : filtered_data[k].DeltaEZ1 = grouped[i].DeltaEZ1}) = 2

====
